---- MODULE Spec2Model ----
(***************************************************************************)
(* Model of the real-time transcription session of Beambell-AI-            *)
(* Receptionist: class SpeechToText and the module entry code of           *)
(* src/indexhighsamp.js (ultra-low-latency variant) and src/indexbefore.js *)
(* (standard variant).                                                     *)
(*                                                                         *)
(* The SpeechToText object is the record stt.  Every method or event       *)
(* callback is an operator that takes the object and returns the new       *)
(* object together with fx, the sequence of calls the callback issues on   *)
(* its collaborators (microphone, channel, console, process) in program    *)
(* order.  One action per callback applies the operator: Node runs each    *)
(* callback to completion, so a callback is one atomic step.               *)
(***************************************************************************)
EXTENDS Integers, Sequences, FiniteSets, TLC

VARIABLES
    variant,    \* which program runs: "highsamp" or "before"
    stt,        \* the SpeechToText object (its fields)
    chan,       \* the channel's socket: "none", "connecting", "open" (the
                \* state getReadyState() reports as 1), "closing", "failed",
                \* "closed"
    calls,      \* how many times each collaborator call has been issued
    clock,      \* the last value returned by Date.now()
    pc,         \* the process: "init", "running", "exited"
    exitCode,   \* exit status once pc = "exited"
    sigint,     \* a SIGINT has been delivered and its handler has not run yet
    captured,   \* history: chunks emitted by the microphone stream
    writable,   \* history: chunks emitted while the channel was writable
    offered,    \* history: processingTime of every final transcript with text
    openFailed, \* history: opening the channel failed ("no", "sync", "async")
    lastEv,     \* history: the callback that ran last
    lastFx,     \* history: the calls issued by the callback that ran last
    screen,     \* the terminal: the row under the cursor, the cursor column,
                \* and (history) the rows completed by the callback that ran
                \* last
    anchor,     \* history: when the first transcript event since the last
                \* final transcript with text arrived, and whether one has
    twin,       \* the SpeechToText object of the other program, given the
                \* same events
    lastFx2     \* history: the calls issued by the twin's callback

vars == <<variant, stt, chan, calls, clock, pc, exitCode, sigint,
          captured, writable, offered, openFailed, lastEv, lastFx,
          screen, anchor, twin, lastFx2>>

----------------------------------------------------------------------------
(* Bounds of the model *)

MaxFinals == 3      \* final transcripts with text per run
MaxChunks == 2      \* microphone chunks per run
MaxErrors == 1      \* channel error events per open channel
MaxStops == 1       \* stop() calls made by the embedding code (README usage)

(* Date.now() values in ms; the clock never runs backwards. *)
Instants == {1000, 1100, 1400, 1500}

\* durations passed to updateProcessingStats() by a direct call
DirectDurations == {-100, 0, 100}

\* lengths of the transcript texts: one length where the text plays no part,
\* several where the output is rendered
ShortLens == {1}
TextLens == {1, 2, 5, 26}

----------------------------------------------------------------------------
(* Values *)

Variants == {"highsamp", "before"}

\* the other program
Other(v) == IF v = "highsamp" THEN "before" ELSE "highsamp"

\* null for the object fields connection and micStream
null == "null"

\* null for startTime; Date.now() is never 0, and 0 is falsy like null
NoTime == 0

\* exitCode while the process has not exited
NoExit == -1

\* the shapes of a transcript event: channel.alternatives undefined,
\* alternatives = [], alternatives[0].transcript = '', or a text
Alts == {"undefined", "empty", "blank", "text"}

\* transcript events without a text, and with a text of a length in L
NoTextEvents == [alts : Alts \ {"text"}, is_final : BOOLEAN, len : {0}]

TextEvents(L) == [alts : {"text"}, is_final : BOOLEAN, len : L]

TranscriptEvents == NoTextEvents \cup TextEvents(ShortLens)

RenderEvents == NoTextEvents \cup TextEvents(TextLens)

\* collaborator calls that are counted over the run
Counted == {"listen.live", "mic.startRecording", "mic.stopRecording",
            "connection.finish", "connection.send", "stop",
            "error.start", "error.deepgram", "log.finalAverage",
            "process.exit"}

Fx(op, arg) == [op |-> op, arg |-> arg]

Count(fx, op) == Cardinality({i \in DOMAIN fx : fx[i].op = op})

RECURSIVE SumSeq(_)
SumSeq(s) == IF s = <<>> THEN 0 ELSE Head(s) + SumSeq(Tail(s))

----------------------------------------------------------------------------
(* class SpeechToText *)

\* constructor: the fields of a new object.  indexbefore.js has no
\* statistics fields; there the three statistics fields are never touched.
constructor ==
    [connection |-> null, startTime |-> NoTime, processingTimes |-> <<>>,
     totalProcessingTime |-> 0, utteranceCount |-> 0, micStream |-> null]

\* toFixed2 with the fraction cut off instead of rounded
toFixed2_floor(num, den) == (100 * num) \div den

\* Number.prototype.toFixed(2) of num/den (num >= 0, den > 0), in hundredths:
\* the hundredth nearest to the quotient, the larger one on a tie.
toFixed2(num, den) == (200 * num + den) \div (2 * den)

\* getAverageProcessingTime(): the formatted average, as hundredths of a ms;
\* '0ms' is 0.
getAverageProcessingTime(s) ==
    IF s.utteranceCount = 0 THEN 0
    ELSE toFixed2(s.totalProcessingTime, s.utteranceCount)

\* updateProcessingStats without the addition to the running sum
updateProcessingStats_noTotal(s, processingTime) ==
    IF processingTime > 0
    THEN [s EXCEPT !.processingTimes = Append(@, processingTime),
                   !.utteranceCount = @ + 1]
    ELSE s

\* updateProcessingStats without the processingTime > 0 test
updateProcessingStats_noGuard(s, processingTime) ==
    [s EXCEPT !.processingTimes = Append(@, processingTime),
              !.totalProcessingTime = @ + processingTime,
              !.utteranceCount = @ + 1]

\* updateProcessingStats(processingTime)
updateProcessingStats(s, processingTime) ==
    IF processingTime > 0
    THEN [s EXCEPT !.processingTimes = Append(@, processingTime),
                   !.totalProcessingTime = @ + processingTime,
                   !.utteranceCount = @ + 1]
    ELSE s

\* stop() with the reset of micStream lost in the ultra-low-latency copy
stop_highsampKeepsStream(s, v) ==
    [stt |-> IF v = "highsamp" THEN s ELSE [s EXCEPT !.micStream = null],
     fx  |-> <<Fx("stop", 0)>>
             \o (IF s.micStream # null
                 THEN <<Fx("mic.stopRecording", 0)>> ELSE <<>>)
             \o (IF s.connection # null
                 THEN <<Fx("connection.finish", 0)>> ELSE <<>>)
             \o (IF v = "highsamp" /\ s.utteranceCount > 0
                 THEN <<Fx("log.finalAverage", getAverageProcessingTime(s))>>
                 ELSE <<>>)]

\* stop()
stop(s, v) ==
    [stt |-> [s EXCEPT !.micStream = null],
     fx  |-> <<Fx("stop", 0)>>
             \o (IF s.micStream # null
                 THEN <<Fx("mic.stopRecording", 0)>> ELSE <<>>)
             \o (IF s.connection # null
                 THEN <<Fx("connection.finish", 0)>> ELSE <<>>)
             \o (IF v = "highsamp" /\ s.utteranceCount > 0
                 THEN <<Fx("log.finalAverage", getAverageProcessingTime(s))>>
                 ELSE <<>>)]

\* start with a catch block that swallows the error
start_silent(s, throws) ==
    IF throws
    THEN [stt |-> s, fx |-> <<Fx("listen.live", 0)>>]
    ELSE [stt |-> [s EXCEPT !.connection = "connection"],
          fx  |-> <<Fx("listen.live", 0)>>]

\* start(): listen.live() either returns the connection or throws into the
\* catch block.
start(s, throws) ==
    IF throws
    THEN [stt |-> s,
          fx  |-> <<Fx("listen.live", 0), Fx("error.start", 0)>>]
    ELSE [stt |-> [s EXCEPT !.connection = "connection"],
          fx  |-> <<Fx("listen.live", 0)>>]

\* the Open callback
onOpen(s) ==
    [stt |-> [s EXCEPT !.micStream = "stream"],
     fx  |-> <<Fx("log.established", 0), Fx("log.startingMic", 0),
               Fx("mic.startRecording", 0)>>]

\* the 'data' callback without the getReadyState() test
onData_noCheck(s, readyState) ==
    [stt |-> s,
     fx  |-> IF s.connection # null
             THEN <<Fx("connection.send", 0)>> ELSE <<>>]

\* the micStream 'data' callback; readyState is the channel's socket state
onData(s, readyState) ==
    [stt |-> s,
     fx  |-> IF s.connection # null /\ readyState = "open"
             THEN <<Fx("connection.send", 0)>> ELSE <<>>]

\* the micStream 'error' callback
onMicError(s) == [stt |-> s, fx |-> <<Fx("error.microphone", 0)>>]

\* the Error callback treating the error as fatal: it tears the session down
onError_tearsDown(s) ==
    LET r == stop(s, "before")
    IN  [stt |-> r.stt, fx |-> <<Fx("error.deepgram", 0)>> \o r.fx]

\* the Error callback of the channel
onError(s) == [stt |-> s, fx |-> <<Fx("error.deepgram", 0)>>]

\* the Transcript callback recording the latency of interim results too
onTranscript_interimRecords(s, v, ev, t1, t2) ==
    LET s1 == IF s.startTime = NoTime THEN [s EXCEPT !.startTime = t1] ELSE s
        processingTime == t2 - s1.startTime
        s2 == IF v = "highsamp" /\ processingTime > 0
              THEN updateProcessingStats(s1, processingTime) ELSE s1
    IN  IF ev.alts # "text"
        THEN [stt |-> s1, fx |-> <<>>]
        ELSE IF ~ev.is_final
        THEN [stt |-> s2, fx |-> <<Fx("write.interim", ev.len)>>]
        ELSE [stt |-> [s2 EXCEPT !.startTime = NoTime],
              fx  |-> <<Fx("write.cr", 0), Fx("log.final", ev.len)>>
                      \o (IF v = "before" \/ processingTime > 0
                          THEN <<Fx("log.processingTime", processingTime)>>
                          ELSE <<>>)
                      \o (IF v = "highsamp" /\ processingTime > 0
                          THEN <<Fx("log.average",
                                    getAverageProcessingTime(s2))>>
                          ELSE <<>>)
                      \o <<Fx("log.separator", 0)>>]

\* the Transcript callback without the reset of startTime
onTranscript_keepsStart(s, v, ev, t1, t2) ==
    LET s1 == IF s.startTime = NoTime THEN [s EXCEPT !.startTime = t1] ELSE s
        processingTime == t2 - s1.startTime
        s2 == IF v = "highsamp" /\ processingTime > 0
              THEN updateProcessingStats(s1, processingTime) ELSE s1
    IN  IF ev.alts # "text"
        THEN [stt |-> s1, fx |-> <<>>]
        ELSE IF ~ev.is_final
        THEN [stt |-> s1, fx |-> <<Fx("write.interim", ev.len)>>]
        ELSE [stt |-> s2,
              fx  |-> <<Fx("write.cr", 0), Fx("log.final", ev.len)>>
                      \o (IF v = "before" \/ processingTime > 0
                          THEN <<Fx("log.processingTime", processingTime)>>
                          ELSE <<>>)
                      \o (IF v = "highsamp" /\ processingTime > 0
                          THEN <<Fx("log.average",
                                    getAverageProcessingTime(s2))>>
                          ELSE <<>>)
                      \o <<Fx("log.separator", 0)>>]

\* the Transcript callback printing the processing time of every final
onTranscript_alwaysTime(s, v, ev, t1, t2) ==
    LET s1 == IF s.startTime = NoTime THEN [s EXCEPT !.startTime = t1] ELSE s
        processingTime == t2 - s1.startTime
        s2 == IF v = "highsamp" /\ processingTime > 0
              THEN updateProcessingStats(s1, processingTime) ELSE s1
    IN  IF ev.alts # "text"
        THEN [stt |-> s1, fx |-> <<>>]
        ELSE IF ~ev.is_final
        THEN [stt |-> s1, fx |-> <<Fx("write.interim", ev.len)>>]
        ELSE [stt |-> [s2 EXCEPT !.startTime = NoTime],
              fx  |-> <<Fx("write.cr", 0), Fx("log.final", ev.len)>>
                      \o <<Fx("log.processingTime", processingTime)>>
                      \o (IF v = "highsamp" /\ processingTime > 0
                          THEN <<Fx("log.average",
                                    getAverageProcessingTime(s2))>>
                          ELSE <<>>)
                      \o <<Fx("log.separator", 0)>>]

\* the Transcript callback; t1 and t2 are the two Date.now() reads
onTranscript(s, v, ev, t1, t2) ==
    LET s1 == IF s.startTime = NoTime THEN [s EXCEPT !.startTime = t1] ELSE s
        processingTime == t2 - s1.startTime
        s2 == IF v = "highsamp" /\ processingTime > 0
              THEN updateProcessingStats(s1, processingTime) ELSE s1
    IN  IF ev.alts # "text"
        THEN [stt |-> s1, fx |-> <<>>]
        ELSE IF ~ev.is_final
        THEN [stt |-> s1, fx |-> <<Fx("write.interim", ev.len)>>]
        ELSE [stt |-> [s2 EXCEPT !.startTime = NoTime],
              fx  |-> <<Fx("write.cr", 0), Fx("log.final", ev.len)>>
                      \o (IF v = "before" \/ processingTime > 0
                          THEN <<Fx("log.processingTime", processingTime)>>
                          ELSE <<>>)
                      \o (IF v = "highsamp" /\ processingTime > 0
                          THEN <<Fx("log.average",
                                    getAverageProcessingTime(s2))>>
                          ELSE <<>>)
                      \o <<Fx("log.separator", 0)>>]

\* the Close callback without the call of stop()
onClose_noStop(s, v) ==
    [stt |-> s,
     fx  |-> <<Fx("log.closed", 0)>>
             \o (IF v = "highsamp" /\ s.utteranceCount > 0
                 THEN <<Fx("log.finalAverage", getAverageProcessingTime(s))>>
                 ELSE <<>>)]

\* the Close callback
onClose(s, v) ==
    LET r == stop(s, v)
    IN  [stt |-> r.stt,
         fx  |-> <<Fx("log.closed", 0)>>
                 \o (IF v = "highsamp" /\ s.utteranceCount > 0
                     THEN <<Fx("log.finalAverage",
                               getAverageProcessingTime(s))>>
                     ELSE <<>>)
                 \o r.fx]

\* the SIGINT handler of the module
onSIGINT(s, v) ==
    LET r == stop(s, v)
    IN  [stt |-> r.stt,
         fx  |-> (IF v = "highsamp" THEN <<Fx("log.stopping", 0)>> ELSE <<>>)
                 \o r.fx \o <<Fx("process.exit", 0)>>]

----------------------------------------------------------------------------
(* The terminal that process.stdout.write and console.log/error write to *)

\* A row is a sequence of runs [ch, n]: n cells holding ch, no run empty and
\* no two neighbours with the same ch.  "L" and "T" are label and text
\* characters written by the callback that is running, "l" and "t" label and
\* text characters left by an earlier callback, " " is a space, and "x"
\* stands for the text of a line that is not transcript output (such a line
\* is always written whole and ended by a newline, its length plays no
\* part).  Colour escape codes occupy no cell.  Rows are as wide as needed.

Cells(ch, n) == IF n = 0 THEN <<>> ELSE <<[ch |-> ch, n |-> n]>>

\* the spaces appended to an interim line
Pad == 20

\* lengths of 'Listening: ', 'ULTRA-LOW: ' and 'FINAL: '
ListeningLabel == 11
UltraLowLabel == 11
FinalLabel == 7

RECURSIVE Width(_)
Width(row) == IF row = <<>> THEN 0 ELSE Head(row).n + Width(Tail(row))

\* the first k cells of a row, and the row without its first k cells
RECURSIVE TakeCells(_, _)
TakeCells(row, k) ==
    IF k <= 0 \/ row = <<>> THEN <<>>
    ELSE IF Head(row).n <= k
    THEN <<Head(row)>> \o TakeCells(Tail(row), k - Head(row).n)
    ELSE <<[Head(row) EXCEPT !.n = k]>>

RECURSIVE DropCells(_, _)
DropCells(row, k) ==
    IF k <= 0 \/ row = <<>> THEN row
    ELSE IF Head(row).n <= k THEN DropCells(Tail(row), k - Head(row).n)
    ELSE <<[Head(row) EXCEPT !.n = @ - k]>> \o Tail(row)

\* neighbouring runs of the same character are one run
RECURSIVE Merged(_)
Merged(row) ==
    IF Len(row) < 2 THEN row
    ELSE IF row[1].ch = row[2].ch
    THEN Merged(<<[row[1] EXCEPT !.n = @ + row[2].n]>> \o Tail(Tail(row)))
    ELSE <<row[1]>> \o Merged(Tail(row))

\* the characters an earlier callback left on the row become old
Aged(row) ==
    Merged([i \in DOMAIN row |->
               [row[i] EXCEPT !.ch = IF @ = "L" THEN "l"
                                     ELSE IF @ = "T" THEN "t" ELSE @]])

\* '\r'
CarriageReturn(scr) == [scr EXCEPT !.col = 0]

\* printable characters overwrite the cells from the cursor on (the cursor
\* is never beyond the end of the row)
Put(scr, cells) ==
    [scr EXCEPT
        !.row = Merged(TakeCells(scr.row, scr.col) \o cells
                       \o DropCells(scr.row, scr.col + Width(cells))),
        !.col = scr.col + Width(cells)]

\* '\n': the row is complete and the cursor starts an empty row
NewLine(scr) ==
    [scr EXCEPT !.row = <<>>, !.col = 0, !.done = Append(@, scr.row)]

\* the output of one call of a callback of program v
Write(scr, f, v) ==
    IF f.op = "write.interim"
    THEN Put(CarriageReturn(scr),
             Cells("L", ListeningLabel) \o Cells("T", f.arg) \o Cells(" ", Pad))
    ELSE IF f.op = "write.cr"
    THEN CarriageReturn(scr)
    ELSE IF f.op = "log.final"
    THEN NewLine(Put(scr, Cells("L", IF v = "highsamp" THEN UltraLowLabel
                                     ELSE FinalLabel)
                          \o Cells("T", f.arg)))
    ELSE IF f.op = "log.stopping"
    THEN NewLine(Put(NewLine(scr), Cells("x", 1)))
    ELSE IF f.op \in {"log.established", "log.startingMic", "log.closed",
                      "log.processingTime", "log.average", "log.separator",
                      "log.finalAverage", "error.start", "error.deepgram",
                      "error.microphone"}
    THEN NewLine(Put(scr, Cells("x", 1)))
    ELSE scr

RECURSIVE WriteAll(_, _, _)
WriteAll(scr, fx, v) ==
    IF fx = <<>> THEN scr ELSE WriteAll(Write(scr, Head(fx), v), Tail(fx), v)

\* the terminal after a callback that issued the calls fx; done collects the
\* rows the callback completed
Render(scr, fx, v) ==
    WriteAll([row |-> Aged(scr.row), col |-> scr.col, done |-> <<>>], fx, v)

----------------------------------------------------------------------------
(* The program and its environment *)

\* the effect of a callback on the object and on the call counters
Run(r, ev) ==
    /\ stt' = r.stt
    /\ calls' = [op \in Counted |-> calls[op] + Count(r.fx, op)]
    /\ lastFx' = r.fx
    /\ lastEv' = ev
    /\ screen' = Render(screen, r.fx, variant)

\* the effect of the same callback of the other program on its object
RunTwin(r) ==
    /\ twin' = r.stt
    /\ lastFx2' = r.fx

Init ==
    /\ variant \in Variants
    /\ stt = constructor
    /\ chan = "none"
    /\ calls = [op \in Counted |-> 0]
    /\ clock = 1000
    /\ pc = "init"
    /\ exitCode = NoExit
    /\ sigint = FALSE
    /\ captured = 0
    /\ writable = 0
    /\ offered = <<>>
    /\ openFailed = "no"
    /\ lastEv = "none"
    /\ lastFx = <<>>
    /\ screen = [row |-> <<>>, col |-> 0, done |-> <<>>]
    /\ anchor = [t |-> NoTime, open |-> FALSE]
    /\ twin = constructor
    /\ lastFx2 = <<>>

\* module entry: new SpeechToText(), stt.start(), process.on('SIGINT', ...)
Main ==
    /\ pc = "init"
    /\ \E throws \in BOOLEAN :
        /\ Run(start(stt, throws), "start")
        /\ RunTwin(start(twin, throws))
        /\ chan' = IF throws THEN "none" ELSE "connecting"
        /\ openFailed' = IF throws THEN "sync" ELSE "no"
    /\ pc' = "running"
    /\ UNCHANGED <<variant, clock, exitCode, sigint, captured, writable,
                   offered,
                   anchor>>

\* the channel becomes ready: the Open callback runs
Open ==
    /\ pc = "running" /\ chan = "connecting"
    /\ Run(onOpen(stt), "open")
    /\ RunTwin(onOpen(twin))
    /\ chan' = "open"
    /\ UNCHANGED <<variant, clock, pc, exitCode, sigint, captured, writable,
                   offered, openFailed,
                   anchor>>

\* the microphone stream emits a chunk: the 'data' callback runs
Data ==
    /\ pc = "running" /\ calls["mic.startRecording"] > 0
    /\ captured < MaxChunks
    /\ Run(onData(stt, chan), "data")
    /\ RunTwin(onData(twin, chan))
    /\ captured' = captured + 1
    /\ writable' = IF chan = "open" THEN writable + 1 ELSE writable
    /\ UNCHANGED <<variant, chan, clock, pc, exitCode, sigint, offered,
                   openFailed,
                   anchor>>

\* the microphone stream emits an error
MicError ==
    /\ pc = "running" /\ calls["mic.startRecording"] > 0
    /\ Run(onMicError(stt), "micError")
    /\ RunTwin(onMicError(twin))
    /\ UNCHANGED <<variant, chan, clock, pc, exitCode, sigint, captured,
                   writable, offered, openFailed,
                   anchor>>

\* the channel delivers a transcript event out of E: the Transcript callback
\* runs
TranscriptOf(E) ==
    /\ pc = "running" /\ chan \in {"open", "closing"}
    /\ \E ev \in E, t1 \in Instants, t2 \in Instants :
        /\ clock <= t1 /\ t1 <= t2
        /\ (ev.alts = "text" /\ ev.is_final) => Len(offered) < MaxFinals
        /\ Run(onTranscript(stt, variant, ev, t1, t2),
               IF ev.alts # "text"
               THEN (IF ev.is_final THEN "noTextFinal" ELSE "noText")
               ELSE IF ev.is_final THEN "final" ELSE "interim")
        /\ RunTwin(onTranscript(twin, Other(variant), ev, t1, t2))
        /\ clock' = t2
        /\ anchor' = IF ev.alts = "text" /\ ev.is_final
                     THEN [t |-> IF anchor.open THEN anchor.t ELSE t1,
                           open |-> FALSE]
                     ELSE IF anchor.open THEN anchor
                     ELSE [t |-> t1, open |-> TRUE]
        /\ offered' = IF ev.alts = "text" /\ ev.is_final
                      THEN Append(offered,
                                  t2 - (IF stt.startTime = NoTime
                                        THEN t1 ELSE stt.startTime))
                      ELSE offered
    /\ UNCHANGED <<variant, chan, pc, exitCode, sigint, captured, writable,
                   openFailed>>

\* a transcript event whose text, if any, has the one short length
Transcript == TranscriptOf(TranscriptEvents)

\* a transcript event whose text, if any, has one of the lengths of TextLens
Rendered == TranscriptOf(RenderEvents)

\* the channel reports an error: while connecting this is the failure to
\* open, after which the socket only closes
Error ==
    /\ pc = "running" /\ chan \in {"connecting", "open", "closing"}
    /\ calls["error.deepgram"] < MaxErrors
    /\ Run(onError(stt), "error")
    /\ RunTwin(onError(twin))
    /\ chan' = IF chan = "connecting" THEN "failed" ELSE chan
    /\ openFailed' = IF chan = "connecting" THEN "async" ELSE openFailed
    /\ UNCHANGED <<variant, clock, pc, exitCode, sigint, captured, writable,
                   offered,
                   anchor>>

\* the socket leaves the writable state before its close event
Closing ==
    /\ pc = "running" /\ chan = "open"
    /\ chan' = "closing"
    /\ UNCHANGED <<variant, stt, calls, clock, pc, exitCode, sigint, captured,
                   writable, offered, openFailed, lastEv, lastFx, screen, anchor, twin, lastFx2>>

\* the channel closes: the Close callback runs
Close ==
    /\ pc = "running" /\ chan \in {"open", "closing", "failed"}
    /\ Run(onClose(stt, variant), "close")
    /\ RunTwin(onClose(twin, Other(variant)))
    /\ chan' = "closed"
    /\ UNCHANGED <<variant, clock, pc, exitCode, sigint, captured, writable,
                   offered, openFailed,
                   anchor>>

\* the embedding code calls stt.stop()
Stop ==
    /\ pc = "running"
    /\ calls["stop"] < MaxStops
    /\ Run(stop(stt, variant), "stop")
    /\ RunTwin(stop(twin, Other(variant)))
    /\ UNCHANGED <<variant, chan, clock, pc, exitCode, sigint, captured,
                   writable, offered, openFailed,
                   anchor>>

\* the operator interrupts the process
Interrupt ==
    /\ pc = "running" /\ ~sigint
    /\ sigint' = TRUE
    /\ UNCHANGED <<variant, stt, chan, calls, clock, pc, exitCode, captured,
                   writable, offered, openFailed, lastEv, lastFx, screen, anchor, twin, lastFx2>>

\* the SIGINT handler runs: stop() and process.exit()
SIGINT ==
    /\ pc = "running" /\ sigint
    /\ Run(onSIGINT(stt, variant), "sigint")
    /\ RunTwin(onSIGINT(twin, Other(variant)))
    /\ sigint' = FALSE
    /\ pc' = "exited"
    /\ exitCode' = 0
    /\ UNCHANGED <<variant, chan, clock, captured, writable, offered,
                   openFailed,
                   anchor>>

Next ==
    \/ Main
    \/ Open
    \/ Data
    \/ MicError
    \/ Transcript
    \/ Error
    \/ Closing
    \/ Close
    \/ Stop
    \/ Interrupt
    \/ SIGINT

Spec == Init /\ [][Next]_vars

\* The embedding code calls updateProcessingStats() itself.
Update ==
    /\ pc = "running" /\ variant = "highsamp"
    /\ Len(offered) < MaxFinals
    /\ \E d \in DirectDurations :
        /\ Run([stt |-> updateProcessingStats(stt, d), fx |-> <<>>], "update")
        /\ RunTwin([stt |-> twin, fx |-> <<>>])
        /\ offered' = Append(offered, d)
    /\ UNCHANGED <<variant, chan, clock, pc, exitCode, sigint, captured,
                   writable, openFailed,
                   anchor>>

\* The statistics under every use of them: a session that opens, receives
\* transcript events and has updateProcessingStats() called on it.
NextStats ==
    \/ Main
    \/ Open
    \/ Transcript
    \/ Update

SpecStats == Init /\ [][NextStats]_vars

\* The transcript output under texts of several lengths: a session that
\* opens, receives transcript events and closes.
NextScreen ==
    \/ Main
    \/ Open
    \/ Rendered
    \/ Close

SpecScreen == Init /\ [][NextScreen]_vars

----------------------------------------------------------------------------
(* Derived notions *)

\* the microphone is capturing
Capturing == calls["mic.startRecording"] > calls["mic.stopRecording"]

\* The session is Closed: the teardown stop() has run, or start() failed
\* before there was anything to tear down, or the process has exited.
Closed ==
    \/ pc = "exited"
    \/ calls["stop"] > 0
    \/ pc = "running" /\ stt.connection = null

\* the three statistics fields of the object
Stats(s) == <<s.processingTimes, s.totalProcessingTime, s.utteranceCount>>

Abs(n) == IF n < 0 THEN -n ELSE n

----------------------------------------------------------------------------
(* The claims *)

\* C1 (as stated): once a teardown has run, the final latency summary has
\* been emitted exactly once if an utterance was recorded and never
\* otherwise, whatever the teardown triggers were.
C1_SummaryExactlyOnce ==
    calls["stop"] > 0 =>
        calls["log.finalAverage"] = IF stt.utteranceCount > 0 THEN 1 ELSE 0

\* C2 (as stated): connection.finish() is issued at most once and
\* mic.stopRecording() is issued at most once per session.
C2_ReleasedAtMostOnce ==
    /\ calls["connection.finish"] <= 1
    /\ calls["mic.stopRecording"] <= 1

\* C3 (as stated): a transcript event without text leaves the whole object
\* unchanged, startTime included, and writes nothing.
C3_NoTextChangesNothing ==
    [][(Transcript /\ lastEv' \in {"noText", "noTextFinal"}) =>
            (stt' = stt /\ lastFx' = <<>>)]_vars

\* C4: in every reachable state utteranceCount is the length of
\* processingTimes, totalProcessingTime is the sum of its elements, and
\* every element is greater than 0.
C4_StatsInvariant ==
    /\ stt.utteranceCount = Len(stt.processingTimes)
    /\ stt.totalProcessingTime = SumSeq(stt.processingTimes)
    /\ \A i \in DOMAIN stt.processingTimes : stt.processingTimes[i] > 0

\* C4 witness: two durations recorded and one final transcript discarded
C4_Witness ==
    /\ lastEv = "final"
    /\ stt.utteranceCount = 2
    /\ Len(offered) = 3

\* C5 (as stated): the average is exactly the arithmetic mean of the recorded
\* durations, and 0 when nothing is recorded.
C5_AverageIsMean ==
    IF stt.processingTimes = <<>>
    THEN getAverageProcessingTime(stt) = 0
    ELSE getAverageProcessingTime(stt) * Len(stt.processingTimes)
            = 100 * SumSeq(stt.processingTimes)

\* h (in hundredths) is the arithmetic mean of D rounded to two decimals
IsRoundedMean(h, D) == 2 * Abs(h * Len(D) - 100 * SumSeq(D)) <= Len(D)

\* C5 (amended): the average is the arithmetic mean of the recorded durations
\* rounded to two decimal places, and '0ms' when nothing is recorded; this
\* holds of the value the method returns in every state and of every
\* average the program prints.
C5_AverageIsRoundedMean ==
    /\ IF stt.processingTimes = <<>>
       THEN getAverageProcessingTime(stt) = 0
       ELSE IsRoundedMean(getAverageProcessingTime(stt), stt.processingTimes)
    /\ \A i \in DOMAIN lastFx :
          lastFx[i].op \in {"log.average", "log.finalAverage"} =>
              /\ stt.processingTimes # <<>>
              /\ IsRoundedMean(lastFx[i].arg, stt.processingTimes)

\* C5 witness: an average was printed for three durations whose mean has more
\* than two decimals
C5_Witness ==
    /\ lastEv = "final"
    /\ Len(stt.processingTimes) = 3
    /\ (100 * SumSeq(stt.processingTimes)) % 3 # 0
    /\ \E i \in DOMAIN lastFx : lastFx[i].op = "log.average"

\* C6: a step that offers a duration <= 0 for recording, by a direct call of
\* updateProcessingStats or by a final transcript, leaves the statistics
\* unchanged; final processing times 100, 0, 300 give count 2 and average
\* 200 ms.
C6_NonPositiveStep ==
    (/\ Len(offered') = Len(offered) + 1
     /\ offered'[Len(offered')] <= 0) => Stats(stt') = Stats(stt)

C6_Scenario ==
    (variant = "highsamp" /\ offered = <<100, 0, 300>>) =>
        /\ stt.processingTimes = <<100, 300>>
        /\ stt.utteranceCount = 2
        /\ stt.totalProcessingTime = 400
        /\ getAverageProcessingTime(stt) = 20000

C6_NonPositiveDiscarded == [][C6_NonPositiveStep]_vars /\ []C6_Scenario

\* C6 witness: the scenario 100, 0, 300, ended by a final transcript
C6_Witness ==
    /\ variant = "highsamp"
    /\ offered = <<100, 0, 300>>
    /\ lastEv = "final"

\* C7: connection.send() is called only in the 'data' callback of a chunk
\* that arrives while the connection exists and the socket is open, once per
\* such chunk at most; no other step sends, so a dropped chunk is never sent.
C7_SendStep ==
    calls'["connection.send"] # calls["connection.send"] =>
        /\ Data
        /\ chan = "open" /\ stt.connection # null
        /\ calls'["connection.send"] = calls["connection.send"] + 1

C7_SendOnlyWhileWritable ==
    /\ [][C7_SendStep]_vars
    /\ [](calls["connection.send"] <= writable /\ writable <= captured)

\* C7 witness: one chunk was sent and a later chunk was dropped
C7_Witness ==
    /\ lastEv = "data" /\ lastFx = <<>>
    /\ captured = 2 /\ writable = 1
    /\ calls["connection.send"] = 1

\* C8: when opening the channel fails, capture is never started,
\* listen.live() is called once only (no retry), the failure is reported
\* exactly once, and the session is Closed as soon as start() has thrown or
\* the failed socket has closed.
C8_FailedOpenCloses ==
    openFailed # "no" =>
        /\ calls["mic.startRecording"] = 0 /\ stt.micStream = null
        /\ calls["listen.live"] = 1
        /\ calls["error.start"] + calls["error.deepgram"] = 1
        /\ chan \in {"none", "closed"} => Closed

\* C8 witness: the socket failed to open and its close event ran the teardown
C8_Witness ==
    /\ openFailed = "async"
    /\ lastEv = "close"
    /\ Closed

\* C9 (as stated): after a startup failure the process does not exit with
\* status 0.
C9_StartupFailureExitsNonZero ==
    (openFailed # "no" /\ pc = "exited") => exitCode # 0

\* C10 (as stated): when the process has exited on an interrupt, the exit
\* code is 0, the teardown has run exactly once, capture is stopped and the
\* close of the channel has been requested.
C10_InterruptClosesOnceThenExits ==
    pc = "exited" =>
        /\ exitCode = 0
        /\ calls["stop"] = 1
        /\ ~Capturing /\ stt.micStream = null
        /\ stt.connection # null => calls["connection.finish"] >= 1

\* C11: after a teardown reached by the channel's close event (with or
\* without an error before it) or by the interrupt, capture is stopped, no
\* capture stream is held, and a close has been requested on the channel the
\* session holds.
C11_TeardownReleasesBoth ==
    (chan = "closed" \/ pc = "exited") =>
        /\ calls["stop"] > 0
        /\ ~Capturing /\ stt.micStream = null
        /\ stt.connection # null => calls["connection.finish"] >= 1

\* C11 witness: the close event of a listening session ran the teardown
C11_Witness ==
    /\ lastEv = "close"
    /\ calls["mic.startRecording"] = 1 /\ calls["mic.stopRecording"] = 1
    /\ calls["connection.finish"] >= 1

\* C14: an interim or text-less transcript event leaves the statistics
\* unchanged; a final transcript with text adds exactly one sample when its
\* elapsed time is > 0 and none otherwise; utteranceCount never exceeds the
\* number of final transcripts with text.
C14_TranscriptStep ==
    IF Len(offered') = Len(offered)
    THEN lastEv' \in {"noText", "noTextFinal", "interim", "final"}
            => Stats(stt') = Stats(stt)
    ELSE /\ lastEv' = "final"
         /\ Len(offered') = Len(offered) + 1
         /\ stt'.utteranceCount - stt.utteranceCount
              = IF variant = "highsamp" /\ offered'[Len(offered')] > 0
                THEN 1 ELSE 0

C14_RecordedOncePerUtterance ==
    /\ [][C14_TranscriptStep]_vars
    /\ [](stt.utteranceCount <= Len(offered))

\* C14 witness: an interim event arrived after two final transcripts of which
\* one was recorded
C14_Witness ==
    /\ lastEv = "interim"
    /\ Len(offered) = 2
    /\ stt.utteranceCount = 1

\* the presenter and teardown calls among the calls of a callback
IsReport(op) == op \in {"error.deepgram", "error.microphone"}

\* C15: an error event of the channel or of the capture stream prints one
\* error report and nothing else: the object is unchanged, no collaborator is
\* called, capture keeps its state and an open channel stays open; the
\* teardown stop() runs only in the close callback, the SIGINT handler or a
\* stop() call of the embedding code.
C15_ErrorStep ==
    /\ (Error \/ MicError) =>
          /\ stt' = stt
          /\ Len(lastFx') = 1 /\ IsReport(lastFx'[1].op)
          /\ \A op \in Counted \ {"error.deepgram"} : calls'[op] = calls[op]
          /\ chan = "open" => chan' = "open"
    /\ calls'["stop"] # calls["stop"] => (Close \/ SIGINT \/ Stop)

C15_ErrorsOnlyReported == [][C15_ErrorStep]_vars

\* C15 witness: a channel error was reported while listening and the session
\* is still listening
C15_Witness ==
    /\ lastEv = "error"
    /\ chan = "open" /\ Capturing /\ stt.micStream # null
    /\ calls["stop"] = 0

\* the calls of a callback that write transcript output
IsPresenter(op) ==
    op \in {"write.interim", "write.cr", "log.final", "log.processingTime",
            "log.average", "log.separator"}

\* C19 (as stated): once the teardown has run, an event delivered afterwards
\* (ready, transcript, error, chunk) changes neither the object nor the
\* capture state and writes no transcript output.
C19_AfterTeardownStep ==
    (calls["stop"] > 0 /\ (Open \/ Transcript \/ Error \/ Data \/ MicError)) =>
        /\ stt' = stt
        /\ calls'["mic.startRecording"] = calls["mic.startRecording"]
        /\ \A i \in DOMAIN lastFx' : ~IsPresenter(lastFx'[i].op)

C19_ClosedIsTerminal == [][C19_AfterTeardownStep]_vars

\* C20 (as stated): once stop() has been called, the microphone is not
\* capturing.
C20_NoCaptureAfterStop == calls["stop"] > 0 => ~Capturing

\* the names of the calls of a callback, in order
Ops(fx) == [i \in DOMAIN fx |-> fx[i].op]

\* a row shows no character left by an earlier callback
NoStale(row) == \A i \in DOMAIN row : row[i].ch \notin {"l", "t"}

\* what a row shows: the row without the spaces at its end
Shown(row) ==
    IF row # <<>> /\ row[Len(row)].ch = " " THEN SubSeq(row, 1, Len(row) - 1)
    ELSE row

\* C12 (as stated): after an interim transcript the row under the cursor
\* shows exactly the interim line just written (label and text), with no
\* character of an earlier interim line left on it, and no row was added.
C12_OneInterimLine ==
    lastEv = "interim" =>
        /\ screen.done = <<>>
        /\ NoStale(screen.row)
        /\ Shown(screen.row) = Cells("L", ListeningLabel)
                               \o Cells("T", lastFx[1].arg)

\* C13 (as stated): a final transcript writes exactly one final text line,
\* and that line starts with the label and the final text and shows no
\* character of the interim line that was pending.
C13_FinalClearsInterim ==
    lastEv = "final" =>
        /\ Count(lastFx, "log.final") = 1
        /\ Len(screen.done) >= 1
        /\ NoStale(screen.done[1])
        /\ TakeCells(screen.done[1], 1) = Cells("L", 1)

\* C16 (as stated): startTime is unset after every final transcript event,
\* with or without text, and set after every interim event.
C16_UnsetAfterEveryFinal ==
    /\ lastEv \in {"final", "noTextFinal"} => stt.startTime = NoTime
    /\ lastEv \in {"interim", "noText"} => stt.startTime # NoTime

\* C16 (amended): startTime is unset after every final transcript with text
\* and set after every other transcript event; it is the arrival time of the
\* first transcript event of any kind since the last final transcript with
\* text (or since the start), and the processing time printed and recorded
\* for a final transcript is the time from that arrival to the final event.
C16_ProcessingTimeFromFirstEvent ==
    /\ stt.startTime = IF anchor.open THEN anchor.t ELSE NoTime
    /\ lastEv \in {"interim", "noText", "noTextFinal"} =>
          stt.startTime # NoTime
    /\ lastEv = "final" =>
          /\ stt.startTime = NoTime
          /\ \A i \in DOMAIN lastFx :
                lastFx[i].op = "log.processingTime" =>
                    lastFx[i].arg = clock - anchor.t
          /\ (variant = "highsamp" /\ clock - anchor.t > 0) =>
                /\ stt.processingTimes # <<>>
                /\ stt.processingTimes[Len(stt.processingTimes)]
                      = clock - anchor.t

\* C16 witness: the second utterance was timed at 300 ms
C16_Witness ==
    /\ lastEv = "final"
    /\ stt.processingTimes = <<100, 300>>
    /\ anchor = [t |-> 1100, open |-> FALSE]

\* C17 (as stated): every final transcript with text prints the final text
\* line, the processing-time line and the separator line in this order, with
\* the running-average line only if a sample has been recorded.
C17_FinalBlockAlwaysTimed ==
    lastEv = "final" =>
        /\ Ops(lastFx) \in
              {<<"write.cr", "log.final", "log.processingTime",
                 "log.separator">>,
               <<"write.cr", "log.final", "log.processingTime",
                 "log.average", "log.separator">>}
        /\ Count(lastFx, "log.average") > 0 => stt.utteranceCount >= 1

\* C17 (amended): every final transcript with text prints a block that
\* starts with the final text line and ends with the separator line; between
\* them indexbefore.js always prints the processing-time line, and
\* indexhighsamp.js prints the processing-time line followed by the
\* running-average line when the processing time is > 0 and nothing
\* otherwise; the average line is printed only when a sample is recorded.
C17_FinalBlock ==
    lastEv = "final" =>
        /\ Ops(lastFx) =
              IF variant = "before"
              THEN <<"write.cr", "log.final", "log.processingTime",
                     "log.separator">>
              ELSE IF offered[Len(offered)] > 0
              THEN <<"write.cr", "log.final", "log.processingTime",
                     "log.average", "log.separator">>
              ELSE <<"write.cr", "log.final", "log.separator">>
        /\ Count(lastFx, "log.average") > 0 => stt.utteranceCount >= 1
        /\ Len(screen.done) = Len(lastFx) - 1

\* C17 witness: indexhighsamp.js printed a final block without a
\* processing-time line
C17_Witness ==
    /\ lastEv = "final"
    /\ variant = "highsamp"
    /\ offered[Len(offered)] = 0
    /\ Ops(lastFx) = <<"write.cr", "log.final", "log.separator">>

\* the lifecycle state of a SpeechToText object
Core(s) == <<s.connection, s.micStream, s.startTime>>

\* the calls of a callback on the microphone, the channel and the process
IsLifecycle(op) ==
    op \in {"listen.live", "mic.startRecording", "mic.stopRecording",
            "connection.finish", "connection.send", "stop", "process.exit"}

Lifecycle(fx) == SelectSeq(Ops(fx), IsLifecycle)

\* C18: given the same events, the objects of the two programs have the same
\* connection, micStream and startTime, and their callbacks issue the same
\* calls on the microphone, the channel and the process, in the same order.
C18_VariantsAgree ==
    /\ Core(twin) = Core(stt)
    /\ Lifecycle(lastFx2) = Lifecycle(lastFx)

\* C18 witness: indexbefore.js closed after a session in which its twin
\* recorded a latency sample
C18_Witness ==
    /\ variant = "before"
    /\ lastEv = "close"
    /\ twin.utteranceCount >= 1
    /\ Count(lastFx, "mic.stopRecording") = 1

====
